---- MODULE Spec2Model ----
(***************************************************************************)
(* A state-machine model of blueprint.py: a JSON document is loaded, the   *)
(* three domains system, packages and programs are dispatched in turn, and *)
(* each leaf handler prints a description and (outside dry-run) launches   *)
(* an external process.                                                    *)
(*                                                                         *)
(* Python strings are sequences of one-character strings, so that the      *)
(* conversions (str, json.dumps, "\n".join) are computed character by      *)
(* character.  JSON values are tagged records.                             *)
(***************************************************************************)
EXTENDS Integers, Sequences, FiniteSets, TLC

(***************************************************************************)
(* Bounds of the model.                                                    *)
(***************************************************************************)
\* Largest number of (namespace, key, value) triples in a system.defaults
\* mapping drawn as input.
MaxEntries == 3
\* Largest number of items in a homebrew manifest drawn as input.
MaxItems == 2

(***************************************************************************)
(* JSON values as json.load builds them.                                   *)
(***************************************************************************)
PyNone == [t |-> "null"]
PyBool(b) == [t |-> "bool", b |-> b]
PyInt(i) == [t |-> "int", i |-> i]
\* A finite float, by its shortest round-trip digits: the value is
\* 0.d1d2...dn * 10^decpt, negated when neg.  Zero is digits <<0>>, decpt 1.
PyFloat(neg, digits, decpt) == [t |-> "float", neg |-> neg, digits |-> digits, decpt |-> decpt]
PyStr(s) == [t |-> "str", s |-> s]
PyList(xs) == [t |-> "list", xs |-> xs]
\* A dict keeps insertion order: a sequence of key/value pairs, keys distinct.
PyDict(kv) == [t |-> "dict", kv |-> kv]
Item(k, v) == [k |-> k, v |-> v]

\* type(value).__name__
TypeName(v) ==
  CASE v.t = "null" -> "NoneType"
    [] v.t = "bool" -> "bool"
    [] v.t = "int" -> "int"
    [] v.t = "float" -> "float"
    [] v.t = "str" -> "str"
    [] v.t = "list" -> "list"
    [] v.t = "dict" -> "dict"

\* isinstance(value, ty): bool is a subclass of int.
isinstance(v, ty) ==
  IF ty = "int" THEN v.t \in {"int", "bool"} ELSE TypeName(v) = ty

\* Python truth value, as the walrus tests of the handlers use it.
Truthy(v) ==
  CASE v.t = "null" -> FALSE
    [] v.t = "bool" -> v.b
    [] v.t = "int" -> v.i # 0
    [] v.t = "float" -> v.digits # <<0>>
    [] v.t = "str" -> v.s # <<>>
    [] v.t = "list" -> v.xs # <<>>
    [] v.t = "dict" -> v.kv # <<>>

HasKey(d, key) == \E n \in 1..Len(d.kv) : d.kv[n].k = key

\* dict.get(key, default)
Get(d, key, default) ==
  IF HasKey(d, key)
  THEN d.kv[CHOOSE n \in 1..Len(d.kv) : d.kv[n].k = key].v
  ELSE default

(***************************************************************************)
(* Exceptions.                                                             *)
(***************************************************************************)
NoError == [exc |-> "none", msg |-> "", expected |-> "", got |-> ""]

\* ensure_type's TypeError(f"Expected {expected_type.__name__}, got {type(value).__name__}")
ExpectedError(v, ty) ==
  [exc |-> "TypeError", msg |-> "Expected", expected |-> ty, got |-> TypeName(v)]

\* ensure_type(value, expected_type): NoError, or the TypeError it raises.
ensure_type(v, ty) == IF isinstance(v, ty) THEN NoError ELSE ExpectedError(v, ty)

\* TypeError(f"Unsupported value type: {type(value).__name__}")
UnsupportedError(v) ==
  [exc |-> "TypeError", msg |-> "Unsupported value type", expected |-> "", got |-> TypeName(v)]

\* subprocess.run(..., check=True) on a non-zero exit.
CalledProcessError == [exc |-> "CalledProcessError", msg |-> "", expected |-> "", got |-> ""]

\* subprocess.run when the program cannot be started (with or without check).
OSError == [exc |-> "OSError", msg |-> "", expected |-> "", got |-> ""]

\* settings.items() on a value that has no items method.
AttributeError(v) == [exc |-> "AttributeError", msg |-> "items", expected |-> "", got |-> TypeName(v)]

(***************************************************************************)
(* String conversions.                                                     *)
(***************************************************************************)
DigitChars == <<"0", "1", "2", "3", "4", "5", "6", "7", "8", "9">>
DigitChar(d) == DigitChars[d + 1]

RECURSIVE NatStr(_)
NatStr(n) == IF n < 10 THEN <<DigitChar(n)>> ELSE NatStr(n \div 10) \o <<DigitChar(n % 10)>>

\* str(value) of an int
IntStr(n) == IF n < 0 THEN <<"-">> \o NatStr(-n) ELSE NatStr(n)

DigitsStr(ds) == [n \in 1..Len(ds) |-> DigitChar(ds[n])]
Zeros(n) == [m \in 1..n |-> "0"]

\* The exponent of float repr: a sign and at least two digits.
ExpStr(e) ==
  LET a == IF e < 0 THEN -e ELSE e
  IN <<(IF e < 0 THEN "-" ELSE "+")>> \o (IF a < 10 THEN <<"0">> ELSE <<>>) \o NatStr(a)

\* str(value) of a float (float.__repr__): the shortest digits, in exponent
\* notation when decpt <= -4 or decpt > 16, else positional with ".0" added
\* to a whole number.
FloatStr(f) ==
  LET n == Len(f.digits)
      ds == DigitsStr(f.digits)
      body ==
        IF f.decpt <= -4 \/ f.decpt > 16
        THEN <<ds[1]>> \o (IF n > 1 THEN <<".">> \o SubSeq(ds, 2, n) ELSE <<>>)
               \o <<"e">> \o ExpStr(f.decpt - 1)
        ELSE IF f.decpt <= 0
        THEN <<"0", ".">> \o Zeros(-f.decpt) \o ds
        ELSE IF f.decpt >= n
        THEN ds \o Zeros(f.decpt - n) \o <<".", "0">>
        ELSE SubSeq(ds, 1, f.decpt) \o <<".">> \o SubSeq(ds, f.decpt + 1, n)
  IN (IF f.neg THEN <<"-">> ELSE <<>>) \o body

\* sep.join(parts)
RECURSIVE Join(_, _)
Join(parts, sep) ==
  IF parts = <<>> THEN <<>>
  ELSE IF Len(parts) = 1 THEN parts[1]
  ELSE parts[1] \o sep \o Join(Tail(parts), sep)

\* Concatenation of a sequence of sequences.
RECURSIVE Flatten(_)
Flatten(ss) == IF ss = <<>> THEN <<>> ELSE Head(ss) \o Flatten(Tail(ss))

\* json.dumps of one character of a string (ensure_ascii): the quote, the
\* backslash and the control characters are escaped, the rest of printable
\* ASCII is kept.
JsonEscape(c) ==
  CASE c = "\"" -> <<"\\", "\"">>
    [] c = "\\" -> <<"\\", "\\">>
    [] c = "\n" -> <<"\\", "n">>
    [] c = "\t" -> <<"\\", "t">>
    [] OTHER -> <<c>>

JsonStr(s) == <<"\"">> \o Flatten([n \in 1..Len(s) |-> JsonEscape(s[n])]) \o <<"\"">>

\* json.dumps(value) with the default separators (", " and ": ").
RECURSIVE JsonDumps(_)
JsonDumps(v) ==
  CASE v.t = "null" -> <<"n", "u", "l", "l">>
    [] v.t = "bool" -> IF v.b THEN <<"t", "r", "u", "e">> ELSE <<"f", "a", "l", "s", "e">>
    [] v.t = "int" -> IntStr(v.i)
    [] v.t = "float" -> FloatStr(v)
    [] v.t = "str" -> JsonStr(v.s)
    [] v.t = "list" ->
         <<"[">> \o Join([n \in 1..Len(v.xs) |-> JsonDumps(v.xs[n])], <<",", " ">>) \o <<"]">>
    [] v.t = "dict" ->
         <<"{">> \o Join([n \in 1..Len(v.kv) |->
                           JsonStr(v.kv[n].k) \o <<":", " ">> \o JsonDumps(v.kv[n].v)],
                         <<",", " ">>) \o <<"}">>

(***************************************************************************)
(* String literals of the program.                                         *)
(***************************************************************************)
str_system == <<"s", "y", "s", "t", "e", "m">>
str_packages == <<"p", "a", "c", "k", "a", "g", "e", "s">>
str_programs == <<"p", "r", "o", "g", "r", "a", "m", "s">>
str_defaults == <<"d", "e", "f", "a", "u", "l", "t", "s">>
str_homebrew == <<"h", "o", "m", "e", "b", "r", "e", "w">>
str_git == <<"g", "i", "t">>
str_taps == <<"t", "a", "p", "s">>
str_brews == <<"b", "r", "e", "w", "s">>
str_casks == <<"c", "a", "s", "k", "s">>
str_mas_apps == <<"m", "a", "s", "_", "a", "p", "p", "s">>
str_write == <<"w", "r", "i", "t", "e">>
str_dash_bool == <<"-", "b", "o", "o", "l">>
str_true == <<"t", "r", "u", "e">>
str_false == <<"f", "a", "l", "s", "e">>
str_brew == <<"b", "r", "e", "w">>
str_bundle == <<"b", "u", "n", "d", "l", "e">>
str_upgrade == <<"u", "p", "g", "r", "a", "d", "e">>
str_file_stdin == <<"-", "-", "f", "i", "l", "e", "=", "-">>
str_cleanup == <<"c", "l", "e", "a", "n", "u", "p">>
str_force == <<"-", "-", "f", "o", "r", "c", "e">>
str_tap_ == <<"t", "a", "p", " ">>
str_brew_ == <<"b", "r", "e", "w", " ">>
str_cask_ == <<"c", "a", "s", "k", " ">>
str_mas_ == <<"m", "a", "s", " ">>
str_id_ == <<",", " ", "i", "d", ":", " ">>
str_executing == <<".", "s", "y", "s", "t", "e", "m", ".", "d", "e", "f", "a", "u", "l", "t", "s", ":", " ", "e", "x", "e", "c", "u", "t", "i", "n", "g">>
str_applying == <<".", "p", "a", "c", "k", "a", "g", "e", "s", ".", "h", "o", "m", "e", "b", "r", "e", "w", ":", " ", "a", "p", "p", "l", "y", "i", "n", "g", " ", "B", "r", "e", "w", "f", "i", "l", "e", ":", "\n", "-", "-", "-", "\n">>
str_rule == <<"\n", "-", "-", "-">>

(***************************************************************************)
(* The state of a run.                                                     *)
(***************************************************************************)
VARIABLES
  DRY_RUN,    \* the module-level flag, fixed for the run
  config,     \* main's config: the document json.load returned
  arg,        \* the config parameter of the handler being executed
  pc,         \* the statement about to be executed; "exit" when the run is over
  frames,     \* return points of the pending calls, innermost first
  entries,    \* handle_system_defaults: the collected (namespace, key, value)
  idx,        \* handle_system_defaults: the position of the write loop in entries
  command,    \* handle_system_defaults: the command of the current entry
  brewfile,   \* handle_packages_homebrew: the manifest text
  log,        \* what the run printed and which processes it launched, in order
  error,      \* the uncaught exception that ended the run, or NoError
  raised_in   \* the function whose frame raised error

vars == <<DRY_RUN, config, arg, pc, frames, entries, idx, command, brewfile, log, error, raised_in>>

\* print(text)
PrintEvent(text) ==
  [ev |-> "print", text |-> text, argv |-> <<>>, piped |-> FALSE, input |-> <<>>,
   check |-> FALSE, started |-> FALSE, rc |-> 0]

\* subprocess.run(argv, input=input if piped, check=check), with what became
\* of the process: whether it started and its exit code.
RunEvent(argv, piped, input, check, started, rc) ==
  [ev |-> "run", text |-> <<>>, argv |-> argv, piped |-> piped, input |-> input,
   check |-> check, started |-> started, rc |-> rc]

\* What an external process can do: fail to start, or exit with a code.
ExitCodes == {0, 1}
Outcomes == {[started |-> FALSE, rc |-> 0]} \cup {[started |-> TRUE, rc |-> c] : c \in ExitCodes}

\* subprocess.run with check=True whatever the caller passed.
RunErrorAlwaysChecked(check, o) ==
  IF ~o.started THEN OSError
  ELSE IF o.rc # 0 THEN CalledProcessError
  ELSE NoError

\* subprocess.run without check whatever the caller passed.
RunErrorNeverChecked(check, o) == IF ~o.started THEN OSError ELSE NoError

\* The exception subprocess.run raises for an outcome, or NoError.
RunError(check, o) ==
  IF ~o.started THEN OSError
  ELSE IF check /\ o.rc # 0 THEN CalledProcessError
  ELSE NoError

\* An uncaught exception: no handler catches anything, the run ends.
Raise(e, fn) ==
  /\ error' = e
  /\ raised_in' = fn
  /\ pc' = "exit"
  /\ frames' = <<>>

\* The current function returns to its caller; main's return ends the run.
Return ==
  /\ pc' = IF frames = <<>> THEN "exit" ELSE Head(frames)
  /\ frames' = IF frames = <<>> THEN <<>> ELSE Tail(frames)
  /\ UNCHANGED <<error, raised_in>>

\* A call of handler fn with parameter a, to continue at ret when it returns.
Call(fn, a, ret) ==
  /\ pc' = fn
  /\ arg' = a
  /\ frames' = <<ret>> \o frames
  /\ UNCHANGED <<error, raised_in>>

(***************************************************************************)
(* .system                                                                 *)
(***************************************************************************)
\* The collection loop without its ensure_type.
FirstBadNamespaceUnchecked(d) == 0

\* The collection loop's ensure_type(settings, dict): the first namespace
\* whose settings fail it, or 0.
FirstBadNamespace(d) ==
  IF \E n \in 1..Len(d.kv) : ensure_type(d.kv[n].v, "dict") # NoError
  THEN CHOOSE n \in 1..Len(d.kv) :
         /\ ensure_type(d.kv[n].v, "dict") # NoError
         /\ \A m \in 1..(n - 1) : ensure_type(d.kv[m].v, "dict") = NoError
  ELSE 0

\* The first namespace whose settings have no items(), or 0.
FirstWithoutItems(d) ==
  IF \E n \in 1..Len(d.kv) : d.kv[n].v.t # "dict"
  THEN CHOOSE n \in 1..Len(d.kv) :
         /\ d.kv[n].v.t # "dict"
         /\ \A m \in 1..(n - 1) : d.kv[m].v.t = "dict"
  ELSE 0

\* The entries list of a mapping of mappings: namespace order, then key order.
AllEntries(d) ==
  Flatten([n \in 1..Len(d.kv) |->
             [m \in 1..Len(d.kv[n].v.kv) |->
                [namespace |-> d.kv[n].k, key |-> d.kv[n].v.kv[m].k,
                 value |-> d.kv[n].v.kv[m].v]]])

\* The collection with the entries of an unsupported value type left out.
CollectEntriesSkipping(d) ==
  SelectSeq(AllEntries(d), LAMBDA e : e.value.t \in {"bool", "str", "int", "float"})

\* entries after the collection loop.
CollectEntries(d) == AllEntries(d)

\* Whether the if/elif chain over the value's type reaches a branch.
Supported(value) ==
  \/ isinstance(value, "bool")
  \/ isinstance(value, "str")
  \/ isinstance(value, "int")
  \/ isinstance(value, "float")

\* str(value) of a bool
BoolStr(b) == IF b THEN <<"T", "r", "u", "e">> ELSE <<"F", "a", "l", "s", "e">>

\* The chain with the int test first: a bool is an int and takes its branch.
ValueArgsIntFirst(value) ==
  IF isinstance(value, "int")
  THEN <<IF value.t = "bool" THEN BoolStr(value.b) ELSE IntStr(value.i)>>
  ELSE IF isinstance(value, "str") THEN <<value.s>>
  ELSE <<FloatStr(value)>>

\* What the if/elif chain appends to the command for a supported value.
ValueArgs(value) ==
  IF isinstance(value, "bool") THEN <<str_dash_bool, IF value.b THEN str_true ELSE str_false>>
  ELSE IF isinstance(value, "str") THEN <<value.s>>
  ELSE IF isinstance(value, "int") THEN <<IntStr(value.i)>>
  ELSE <<FloatStr(value)>>

\* The command list of one entry.
DefaultsCommand(e) == <<str_defaults, str_write, e.namespace, e.key>> \o ValueArgs(e.value)

\* handle_system_defaults, up to the write loop: ensure_type(config, dict) and
\* the collection of the entries, which checks every namespace's settings.
handle_system_defaults ==
  /\ pc = "handle_system_defaults"
  /\ IF ensure_type(arg, "dict") # NoError
     THEN Raise(ensure_type(arg, "dict"), "ensure_type") /\ UNCHANGED <<entries, idx>>
     ELSE IF FirstBadNamespace(arg) # 0
     THEN /\ Raise(ensure_type(arg.kv[FirstBadNamespace(arg)].v, "dict"), "ensure_type")
          /\ UNCHANGED <<entries, idx>>
     ELSE IF FirstWithoutItems(arg) # 0
     THEN /\ Raise(AttributeError(arg.kv[FirstWithoutItems(arg)].v), "handle_system_defaults")
          /\ UNCHANGED <<entries, idx>>
     ELSE /\ entries' = CollectEntries(arg)
          /\ idx' = 1
          /\ pc' = "defaults_loop"
          /\ UNCHANGED <<frames, error, raised_in>>
  /\ UNCHANGED <<DRY_RUN, config, arg, command, brewfile, log>>

\* if DRY_RUN: continue
defaults_skips_run_never == FALSE
defaults_skips_run == DRY_RUN

\* One pass of the write loop up to the process launch: the command is built
\* (or the TypeError raised), it is printed, and dry-run continues with the
\* next entry.  The loop's end returns.
defaults_loop ==
  /\ pc = "defaults_loop"
  /\ IF idx > Len(entries)
     THEN Return /\ UNCHANGED <<idx, command, log>>
     ELSE IF ~Supported(entries[idx].value)
     THEN /\ Raise(UnsupportedError(entries[idx].value), "handle_system_defaults")
          /\ UNCHANGED <<idx, command, log>>
     ELSE /\ command' = DefaultsCommand(entries[idx])
          /\ log' = Append(log, PrintEvent(str_executing \o <<" ">> \o Join(command', <<" ">>)))
          /\ idx' = IF defaults_skips_run THEN idx + 1 ELSE idx
          /\ pc' = IF defaults_skips_run THEN "defaults_loop" ELSE "defaults_run"
          /\ UNCHANGED <<frames, error, raised_in>>
  /\ UNCHANGED <<DRY_RUN, config, arg, entries, brewfile>>

\* subprocess.run(command, check=True)
defaults_run ==
  /\ pc = "defaults_run"
  /\ \E o \in Outcomes :
       /\ log' = Append(log, RunEvent(command, FALSE, <<>>, TRUE, o.started, o.rc))
       /\ IF RunError(TRUE, o) # NoError
          THEN Raise(RunError(TRUE, o), "subprocess.run") /\ UNCHANGED idx
          ELSE /\ idx' = idx + 1
               /\ pc' = "defaults_loop"
               /\ UNCHANGED <<frames, error, raised_in>>
  /\ UNCHANGED <<DRY_RUN, config, arg, entries, command, brewfile>>

\* handle_system: the defaults handler is called in tail position, so its
\* return is handle_system's.
handle_system ==
  /\ pc = "handle_system"
  /\ IF ensure_type(arg, "dict") # NoError
     THEN Raise(ensure_type(arg, "dict"), "ensure_type") /\ UNCHANGED arg
     ELSE IF Truthy(Get(arg, str_defaults, PyNone))
     THEN /\ pc' = "handle_system_defaults"
          /\ arg' = Get(arg, str_defaults, PyNone)
          /\ UNCHANGED <<frames, error, raised_in>>
     ELSE Return /\ UNCHANGED arg
  /\ UNCHANGED <<DRY_RUN, config, entries, idx, command, brewfile, log>>

(***************************************************************************)
(* .packages                                                               *)
(***************************************************************************)
taps(d) == Get(d, str_taps, PyList(<<>>))
brews(d) == Get(d, str_brews, PyList(<<>>))
casks(d) == Get(d, str_casks, PyList(<<>>))
mas_apps(d) == Get(d, str_mas_apps, PyDict(<<>>))

\* The four ensure_type calls on the fields, in the order of the code: the
\* error of the first that fails, or NoError.
FieldsError(d) ==
  IF ensure_type(taps(d), "list") # NoError THEN ensure_type(taps(d), "list")
  ELSE IF ensure_type(brews(d), "list") # NoError THEN ensure_type(brews(d), "list")
  ELSE IF ensure_type(casks(d), "list") # NoError THEN ensure_type(casks(d), "list")
  ELSE ensure_type(mas_apps(d), "dict")

\* [f"{word} {json.dumps(x)}" for x in xs]
ListLines(word, xs) == [n \in 1..Len(xs) |-> word \o JsonDumps(xs[n])]

\* [f"mas {json.dumps(name)}, id: {json.dumps(app_id)}" for name, app_id in mas_apps.items()]
MasLines(kv) ==
  [n \in 1..Len(kv) |-> str_mas_ \o JsonStr(kv[n].k) \o str_id_ \o JsonDumps(kv[n].v)]

\* The lines with the casks before the brews.
BrewLinesCasksFirst(d) ==
  ListLines(str_tap_, taps(d).xs) \o ListLines(str_cask_, casks(d).xs)
    \o ListLines(str_brew_, brews(d).xs) \o MasLines(mas_apps(d).kv)

\* The lines list of the manifest.
BrewLines(d) ==
  ListLines(str_tap_, taps(d).xs) \o ListLines(str_brew_, brews(d).xs)
    \o ListLines(str_cask_, casks(d).xs) \o MasLines(mas_apps(d).kv)

\* "\n".join(lines)
Brewfile(d) == Join(BrewLines(d), <<"\n">>)

UpgradeCommand == <<str_brew, str_bundle, str_upgrade, str_file_stdin>>
CleanupCommand == <<str_brew, str_bundle, str_cleanup, str_force>>

\* if DRY_RUN: return
homebrew_skips_run == DRY_RUN

\* handle_packages_homebrew up to the first process launch: the type checks,
\* the manifest, its description, and dry-run's return.
handle_packages_homebrew ==
  /\ pc = "handle_packages_homebrew"
  /\ IF ensure_type(arg, "dict") # NoError
     THEN Raise(ensure_type(arg, "dict"), "ensure_type") /\ UNCHANGED <<brewfile, log>>
     ELSE IF FieldsError(arg) # NoError
     THEN Raise(FieldsError(arg), "ensure_type") /\ UNCHANGED <<brewfile, log>>
     ELSE /\ brewfile' = Brewfile(arg)
          /\ log' = Append(log, PrintEvent(str_applying \o brewfile' \o str_rule))
          /\ IF homebrew_skips_run
             THEN Return
             ELSE pc' = "brew_upgrade" /\ UNCHANGED <<frames, error, raised_in>>
  /\ UNCHANGED <<DRY_RUN, config, arg, entries, idx, command>>

\* subprocess.run(["brew", "bundle", "upgrade", "--file=-"], input=brewfile, text=True, check=True)
brew_upgrade ==
  /\ pc = "brew_upgrade"
  /\ \E o \in Outcomes :
       /\ log' = Append(log, RunEvent(UpgradeCommand, TRUE, brewfile, TRUE, o.started, o.rc))
       /\ IF RunError(TRUE, o) # NoError
          THEN Raise(RunError(TRUE, o), "subprocess.run")
          ELSE pc' = "brew_cleanup" /\ UNCHANGED <<frames, error, raised_in>>
  /\ UNCHANGED <<DRY_RUN, config, arg, entries, idx, command, brewfile>>

\* subprocess.run(["brew", "bundle", "cleanup", "--force"]), then the return.
brew_cleanup ==
  /\ pc = "brew_cleanup"
  /\ \E o \in Outcomes :
       /\ log' = Append(log, RunEvent(CleanupCommand, FALSE, <<>>, FALSE, o.started, o.rc))
       /\ IF RunError(FALSE, o) # NoError
          THEN Raise(RunError(FALSE, o), "subprocess.run")
          ELSE Return
  /\ UNCHANGED <<DRY_RUN, config, arg, entries, idx, command, brewfile>>

\* handle_packages: the homebrew handler is called in tail position.
handle_packages ==
  /\ pc = "handle_packages"
  /\ IF ensure_type(arg, "dict") # NoError
     THEN Raise(ensure_type(arg, "dict"), "ensure_type") /\ UNCHANGED arg
     ELSE IF Truthy(Get(arg, str_homebrew, PyNone))
     THEN /\ pc' = "handle_packages_homebrew"
          /\ arg' = Get(arg, str_homebrew, PyNone)
          /\ UNCHANGED <<frames, error, raised_in>>
     ELSE Return /\ UNCHANGED arg
  /\ UNCHANGED <<DRY_RUN, config, entries, idx, command, brewfile, log>>

(***************************************************************************)
(* .programs                                                               *)
(***************************************************************************)
\* handle_programs_git: pass.
handle_programs_git ==
  /\ pc = "handle_programs_git"
  /\ Return
  /\ UNCHANGED <<DRY_RUN, config, arg, entries, idx, command, brewfile, log>>

\* handle_programs: the git handler is called in tail position.
handle_programs ==
  /\ pc = "handle_programs"
  /\ IF ensure_type(arg, "dict") # NoError
     THEN Raise(ensure_type(arg, "dict"), "ensure_type") /\ UNCHANGED arg
     ELSE IF Truthy(Get(arg, str_git, PyNone))
     THEN /\ pc' = "handle_programs_git"
          /\ arg' = Get(arg, str_git, PyNone)
          /\ UNCHANGED <<frames, error, raised_in>>
     ELSE Return /\ UNCHANGED arg
  /\ UNCHANGED <<DRY_RUN, config, entries, idx, command, brewfile, log>>

(***************************************************************************)
(* main, from the loaded document on.                                      *)
(***************************************************************************)
\* The order of main's three dispatch statements.
MainOrderPackagesFirst == <<"packages", "system", "programs">>
MainOrder == <<"system", "packages", "programs">>
MainLabel(d) == "main_" \o d
\* Where main continues after the dispatch statement of domain d.
AfterDomain(d) ==
  LET n == CHOOSE m \in 1..Len(MainOrder) : MainOrder[m] = d
  IN IF n < Len(MainOrder) THEN MainLabel(MainOrder[n + 1]) ELSE "exit"

\* ensure_type(config, dict)
main ==
  /\ pc = "main"
  /\ IF ensure_type(config, "dict") # NoError
     THEN Raise(ensure_type(config, "dict"), "ensure_type")
     ELSE pc' = MainLabel(MainOrder[1]) /\ UNCHANGED <<frames, error, raised_in>>
  /\ UNCHANGED <<DRY_RUN, config, arg, entries, idx, command, brewfile, log>>

\* if system_config := config.get("system"): handle_system(system_config)
main_system ==
  /\ pc = "main_system"
  /\ IF Truthy(Get(config, str_system, PyNone))
     THEN Call("handle_system", Get(config, str_system, PyNone), AfterDomain("system"))
     ELSE pc' = AfterDomain("system") /\ UNCHANGED <<arg, frames, error, raised_in>>
  /\ UNCHANGED <<DRY_RUN, config, entries, idx, command, brewfile, log>>

\* if packages_config := config.get("packages"): handle_packages(packages_config)
main_packages ==
  /\ pc = "main_packages"
  /\ IF Truthy(Get(config, str_packages, PyNone))
     THEN Call("handle_packages", Get(config, str_packages, PyNone), AfterDomain("packages"))
     ELSE pc' = AfterDomain("packages") /\ UNCHANGED <<arg, frames, error, raised_in>>
  /\ UNCHANGED <<DRY_RUN, config, entries, idx, command, brewfile, log>>

\* if programs_config := config.get("programs"): handle_programs(programs_config);
\* after the last statement main returns.
main_programs ==
  /\ pc = "main_programs"
  /\ IF Truthy(Get(config, str_programs, PyNone))
     THEN Call("handle_programs", Get(config, str_programs, PyNone), AfterDomain("programs"))
     ELSE pc' = AfterDomain("programs") /\ UNCHANGED <<arg, frames, error, raised_in>>
  /\ UNCHANGED <<DRY_RUN, config, entries, idx, command, brewfile, log>>

(***************************************************************************)
(* The inputs the runs are drawn from.                                     *)
(***************************************************************************)
\* A key that is not in the document; MkDict leaves it out.
Absent == [t |-> "absent"]
MkDict(items) == PyDict(SelectSeq(items, LAMBDA it : it.v # Absent))

\* The sequences over S without repetition, of length at most n.
InjSeqs(S, n) ==
  {s \in UNION {[1..k -> S] : k \in 0..n} :
     \A a, b \in 1..Len(s) : a # b => s[a] # s[b]}

\* The sequences over S of length at most n.
SeqsUpTo(S, n) == UNION {[1..k -> S] : k \in 0..n}

Zip(ks, vs) == [n \in 1..Len(ks) |-> Item(ks[n], vs[n])]

\* The dicts with keys drawn in any order from Keys and values from Values,
\* of at most n items.
DictsOver(Keys, Values, n) ==
  UNION {{PyDict(Zip(ks, vs)) : vs \in [1..Len(ks) -> Values]} : ks \in InjSeqs(Keys, n)}

NamespaceNames == {<<"N", "S", "G", "l", "o", "b", "a", "l", "D", "o", "m", "a", "i", "n">>, <<"c", "o", "m", ".", "a", "p", "p", "l", "e", ".", "d", "o", "c", "k">>}
KeyNames == {<<"a", "u", "t", "o", "h", "i", "d", "e">>, <<"t", "i", "l", "e", "s", "i", "z", "e">>}

IntValues == {PyInt(i) : i \in {0, 1, 7, -1, -12, 105, 2024}}
FloatValues ==
  {PyFloat(neg, <<0>>, 1) : neg \in BOOLEAN}
    \cup {PyFloat(neg, ds, p) : neg \in BOOLEAN, ds \in {<<1>>, <<3, 5>>, <<1, 0, 5>>},
                               p \in {-5, -4, -3, 0, 1, 2, 3, 16, 17, 18}}
StrValues == {PyStr(s) : s \in {<<>>, <<"l", "e", "f", "t">>, <<"a", " ", "b">>, <<"-", "b", "o", "o", "l">>, <<"t", "r", "u", "e">>, <<"1", "2">>}}
UnsupportedValues ==
  {PyNone, PyList(<<>>), PyList(<<PyInt(1)>>), PyDict(<<>>), PyDict(<<Item(<<"x">>, PyInt(1))>>)}

\* Every kind of value, for the mappings of a single entry.
RichValues == {PyBool(TRUE), PyBool(FALSE)} \cup IntValues \cup FloatValues
                \cup StrValues \cup UnsupportedValues
\* One value of each kind, for the mappings of several entries.
CoreValues == {PyBool(TRUE), PyInt(-12), PyFloat(FALSE, <<3, 5>>, 1), PyStr(<<"l", "e", "f", "t">>),
               PyList(<<>>), PyNone}

\* What is not a mapping, falsy and truthy.
NonDicts == {PyNone, PyList(<<>>), PyStr(<<>>), PyInt(0), PyBool(FALSE),
             PyList(<<PyInt(1)>>), PyStr(<<"x">>), PyInt(1), PyBool(TRUE)}

NumEntries(settings) == IF settings.t = "dict" THEN Len(settings.kv) ELSE 0

RECURSIVE SumEntries(_)
SumEntries(kv) == IF kv = <<>> THEN 0 ELSE NumEntries(Head(kv).v) + SumEntries(Tail(kv))

\* The settings of one namespace: a mapping of keys to values, or something
\* that is not a mapping.
SettingsOver(Values, n) == DictsOver(KeyNames, Values, n) \cup {PyList(<<>>), PyStr(<<"x">>), PyNone}
CoreSettings == SettingsOver(CoreValues, MaxEntries)
RichSettings == SettingsOver(RichValues, 1)
Settings == CoreSettings \cup RichSettings
NamespaceSeqs == InjSeqs(NamespaceNames, 2)

\* The mappings drawn as system.defaults: at most MaxEntries entries in all;
\* the mappings of several entries take their values from CoreValues.
DefaultsAdmissible(d) ==
  /\ SumEntries(d.kv) <= MaxEntries
  /\ \/ \A n \in 1..Len(d.kv) : d.kv[n].v \in CoreSettings
     \/ Len(d.kv) = 1

\* One entry of a homebrew section: an element of the list field f, or the
\* item k: v of the mapping field mas_apps.
ListFields == {"taps", "brews", "casks"}
Fields == ListFields \cup {"mas_apps"}
ItemValues == {PyStr(<<"a", "/", "b">>), PyStr(<<"q", "\"", "t", "\n", "\\">>), PyInt(7)}
MasItems == {Item(<<"F", "o", "o">>, PyInt(123)), Item(<<"B", "a", "r", " ", "B", "a", "z">>, PyStr(<<"9">>))}
FieldItems ==
  {[f |-> f, k |-> <<>>, v |-> v] : f \in ListFields, v \in ItemValues}
    \cup {[f |-> "mas_apps", k |-> it.k, v |-> it.v] : it \in MasItems}
ItemSeqs == SeqsUpTo(FieldItems, MaxItems)

\* How a field without entries appears in the section.
Modes == {"absent", "empty", "wrong"}
FieldKey(f) ==
  CASE f = "taps" -> str_taps [] f = "brews" -> str_brews
    [] f = "casks" -> str_casks [] f = "mas_apps" -> str_mas_apps
EmptyField(f) == IF f = "mas_apps" THEN PyDict(<<>>) ELSE PyList(<<>>)
WrongField(f) ==
  CASE f = "taps" -> PyStr(<<"a", "/", "b">>) [] f = "brews" -> PyNone
    [] f = "casks" -> PyDict(<<>>) [] f = "mas_apps" -> PyList(<<>>)

ItemsOf(its, f) == SelectSeq(its, LAMBDA it : it.f = f)

FieldValue(its, modes, f) ==
  LET mine == ItemsOf(its, f)
  IN IF mine # <<>>
     THEN IF f = "mas_apps"
          THEN PyDict([n \in 1..Len(mine) |-> Item(mine[n].k, mine[n].v)])
          ELSE PyList([n \in 1..Len(mine) |-> mine[n].v])
     ELSE CASE modes[f] = "absent" -> Absent
            [] modes[f] = "empty" -> EmptyField(f)
            [] modes[f] = "wrong" -> WrongField(f)

\* The section with the entries its, its fields in the order of the manifest
\* or in the reverse order.
HomebrewDoc(its, modes, rev) ==
  LET fs == IF rev THEN <<"mas_apps", "casks", "brews", "taps">>
                   ELSE <<"taps", "brews", "casks", "mas_apps">>
  IN MkDict([n \in 1..4 |-> Item(FieldKey(fs[n]), FieldValue(its, modes, fs[n]))])

\* A field with entries has no mode to choose, and the names of a mapping
\* are distinct.
HomebrewAdmissible(its, modes) ==
  /\ \A f \in Fields : ItemsOf(its, f) # <<>> => modes[f] = "empty"
  /\ \A a, b \in 1..Len(its) :
       (a # b /\ its[a].f = "mas_apps" /\ its[b].f = "mas_apps") => its[a].k # its[b].k

\* The documents main is run on: the three known keys in every order, each
\* absent or with one of the sample values, with or without an unknown key.
ns_global == <<"N", "S", "G", "l", "o", "b", "a", "l", "D", "o", "m", "a", "i", "n">>
ns_dock == <<"c", "o", "m", ".", "a", "p", "p", "l", "e", ".", "d", "o", "c", "k">>
key_autohide == <<"a", "u", "t", "o", "h", "i", "d", "e">>
key_tilesize == <<"t", "i", "l", "e", "s", "i", "z", "e">>
str_hostname == <<"h", "o", "s", "t", "n", "a", "m", "e">>
Dict1(k, v) == PyDict(<<Item(k, v)>>)
Dict2(k1, v1, k2, v2) == PyDict(<<Item(k1, v1), Item(k2, v2)>>)

DefaultsSamples ==
  {PyDict(<<>>), PyList(<<>>), PyStr(<<"x">>),
   Dict1(ns_dock, Dict1(key_autohide, PyBool(TRUE))),
   Dict1(ns_global, Dict2(key_autohide, PyStr(<<"l", "e", "f", "t">>), key_tilesize, PyList(<<>>))),
   Dict2(ns_dock, Dict1(key_tilesize, PyInt(-12)), ns_global, PyList(<<>>)),
   Dict2(ns_dock, Dict1(key_autohide, PyFloat(FALSE, <<3, 5>>, 1)),
         ns_global, Dict1(key_tilesize, PyBool(FALSE)))}
SystemSamples ==
  {Absent, PyNone, PyList(<<>>), PyStr(<<>>), PyInt(0), PyBool(FALSE), PyDict(<<>>),
   PyList(<<PyInt(1)>>), PyStr(<<"x">>), Dict1(str_hostname, PyInt(1))}
    \cup {Dict1(str_defaults, d) : d \in DefaultsSamples}

HomebrewSamples ==
  {PyDict(<<>>), PyNone, PyList(<<PyInt(1)>>),
   PyDict(<<Item(str_taps, PyList(<<PyStr(<<"a", "/", "b">>)>>)),
            Item(str_brews, PyList(<<PyStr(<<"x">>)>>)),
            Item(str_casks, PyList(<<>>)),
            Item(str_mas_apps, Dict1(<<"F", "o", "o">>, PyInt(123)))>>),
   Dict1(str_brews, PyNone),
   Dict1(str_casks, PyList(<<PyStr(<<"a", "/", "b">>)>>))}
PackagesSamples ==
  {Absent, PyList(<<>>), PyInt(0), PyDict(<<>>), PyStr(<<"x">>)}
    \cup {Dict1(str_homebrew, h) : h \in HomebrewSamples}

GitSamples ==
  {PyDict(<<>>), Dict1(<<"u", "s", "e", "r", ".", "n", "a", "m", "e">>, PyStr(<<"x">>)), PyStr(<<"x">>), PyList(<<PyInt(1)>>)}
ProgramsSamples ==
  {Absent, PyNone, PyBool(FALSE), PyDict(<<>>), PyBool(TRUE)}
    \cup {Dict1(str_git, g) : g \in GitSamples}

Orders == {p \in [1..3 -> 1..3] : \A a, b \in 1..3 : a # b => p[a] # p[b]}

\* The document with the known keys in the order p, and the unknown key last.
Document(p, sys, pkg, prg, unknown) ==
  LET known == <<Item(str_system, sys), Item(str_packages, pkg), Item(str_programs, prg)>>
  IN MkDict([n \in 1..3 |-> known[p[n]]]
              \o <<Item(str_hostname, IF unknown THEN PyStr(<<"x">>) ELSE Absent)>>)

(***************************************************************************)
(* Specifications.                                                         *)
(***************************************************************************)
\* The state a run starts in, at statement start with parameter a.
Start(start, doc, a) ==
  /\ DRY_RUN \in BOOLEAN
  /\ config = doc
  /\ arg = a
  /\ pc = start
  /\ frames = <<>>
  /\ entries = <<>>
  /\ idx = 0
  /\ command = <<>>
  /\ brewfile = <<>>
  /\ log = <<>>
  /\ error = NoError
  /\ raised_in = ""

\* handle_system_defaults called on its own.
InitDefaults ==
  \/ \E a \in NonDicts : Start("handle_system_defaults", PyNone, a)
  \/ \E ks \in NamespaceSeqs : \E vs \in [1..Len(ks) -> Settings] :
       /\ DefaultsAdmissible(PyDict(Zip(ks, vs)))
       /\ Start("handle_system_defaults", PyNone, PyDict(Zip(ks, vs)))
NextDefaults == handle_system_defaults \/ defaults_loop \/ defaults_run
SpecDefaults == InitDefaults /\ [][NextDefaults]_vars

\* handle_packages_homebrew called on its own.
InitHomebrew ==
  \/ \E a \in NonDicts : Start("handle_packages_homebrew", PyNone, a)
  \/ \E its \in ItemSeqs : \E modes \in [Fields -> Modes] : \E rev \in BOOLEAN :
       /\ HomebrewAdmissible(its, modes)
       /\ Start("handle_packages_homebrew", PyNone, HomebrewDoc(its, modes, rev))
NextHomebrew == handle_packages_homebrew \/ brew_upgrade \/ brew_cleanup
SpecHomebrew == InitHomebrew /\ [][NextHomebrew]_vars

\* A run of main on a loaded document.
Init ==
  \/ \E root \in NonDicts : Start("main", root, PyNone)
  \/ \E p \in Orders : \E sys \in SystemSamples : \E pkg \in PackagesSamples :
       \E prg \in ProgramsSamples : \E unknown \in BOOLEAN :
         Start("main", Document(p, sys, pkg, prg, unknown), PyNone)
Next ==
  \/ main \/ main_system \/ main_packages \/ main_programs
  \/ handle_system \/ handle_system_defaults \/ defaults_loop \/ defaults_run
  \/ handle_packages \/ handle_packages_homebrew \/ brew_upgrade \/ brew_cleanup
  \/ handle_programs \/ handle_programs_git
Spec == Init /\ [][Next]_vars

(***************************************************************************)
(* Vocabulary of the properties.                                           *)
(***************************************************************************)
StartsWith(s, prefix) == Len(s) >= Len(prefix) /\ SubSeq(s, 1, Len(prefix)) = prefix

\* A defaults write command that was launched, a brew command that was launched.
IsDefaultsRun(e) == e.ev = "run" /\ Len(e.argv) >= 2 /\ e.argv[1] = str_defaults /\ e.argv[2] = str_write
IsUpgradeRun(e) == e.ev = "run" /\ e.argv = <<str_brew, str_bundle, str_upgrade, str_file_stdin>>
IsCleanupRun(e) == e.ev = "run" /\ e.argv = <<str_brew, str_bundle, str_cleanup, str_force>>
IsBrewRun(e) == e.ev = "run" /\ Len(e.argv) >= 1 /\ e.argv[1] = str_brew

\* The description of a defaults write command, of the homebrew manifest.
IsDefaultsPrint(e) == e.ev = "print" /\ StartsWith(e.text, str_executing)
IsManifestPrint(e) == e.ev = "print" /\ StartsWith(e.text, str_applying)

IsDefaultsEvent(e) == IsDefaultsRun(e) \/ IsDefaultsPrint(e)
IsBrewEvent(e) == IsBrewRun(e) \/ IsManifestPrint(e)

Failed(e) == e.ev = "run" /\ e.started /\ e.rc # 0

\* The domain whose statement or handler pc is in; 4 once the run is over.
Domain(label) ==
  CASE label \in {"main", "main_system", "handle_system", "handle_system_defaults",
                  "defaults_loop", "defaults_run"} -> 1
    [] label \in {"main_packages", "handle_packages", "handle_packages_homebrew",
                  "brew_upgrade", "brew_cleanup"} -> 2
    [] label \in {"main_programs", "handle_programs", "handle_programs_git"} -> 3
    [] label = "exit" -> 4

(***************************************************************************)
(* Properties.                                                             *)
(***************************************************************************)
\* C1: in dry-run mode no external process is ever launched, neither a
\* defaults write nor brew bundle upgrade nor brew bundle cleanup: the run is
\* never at a launch statement and everything it emitted is a description.
C1_DryRunLaunchesNothing ==
  DRY_RUN =>
    /\ pc \notin {"defaults_run", "brew_upgrade", "brew_cleanup"}
    /\ \A n \in 1..Len(log) : log[n].ev = "print"

\* A dry run that went through both handlers and ended normally, having
\* described a defaults write and the manifest.
C1_Witness ==
  /\ DRY_RUN
  /\ pc = "exit"
  /\ error = NoError
  /\ \E n \in 1..Len(log) : IsDefaultsPrint(log[n])
  /\ \E n \in 1..Len(log) : IsManifestPrint(log[n])

\* C4: the domains are processed in the order system, packages, programs,
\* whatever the order of the document's keys: the run never moves back to an
\* earlier domain, every defaults description and launch precedes the
\* manifest and every brew launch, and an exception ends the run at once, so
\* that no later domain is processed.
C4_DomainOrder ==
  [][/\ Domain(pc') >= Domain(pc)
     /\ \A a, b \in 1..Len(log') : (IsBrewEvent(log'[a]) /\ IsDefaultsEvent(log'[b])) => b < a
     /\ error' # NoError => pc' = "exit"]_vars

\* The programs handler running in a document whose keys are in the order
\* programs, packages, system, after defaults writes and brew commands.
C4_Witness ==
  /\ pc = "handle_programs"
  /\ config.t = "dict"
  /\ Len(config.kv) >= 3
  /\ config.kv[1].k = str_programs
  /\ config.kv[2].k = str_packages
  /\ config.kv[3].k = str_system
  /\ \E n \in 1..Len(log) : IsDefaultsRun(log[n])
  /\ \E n \in 1..Len(log) : IsBrewRun(log[n])

\* C2: in apply mode a launched command that exits non-zero halts the run
\* there, with an error and nothing launched or described after it, if and
\* only if it is a checked command, and the checked commands are the defaults
\* writes and brew bundle upgrade; after a non-zero exit of the unchecked brew
\* bundle cleanup the run goes on, without error, to the programs domain.
C2_CheckedFailureHalts ==
  [][~DRY_RUN =>
       /\ \A n \in 1..Len(log') :
            (Failed(log'[n]) /\ log'[n].check) => (n = Len(log') /\ pc' = "exit")
       /\ (Len(log') > Len(log) /\ Failed(log'[Len(log')])) =>
            LET e == log'[Len(log')]
            IN /\ e.check <=> (IsDefaultsRun(e) \/ IsUpgradeRun(e))
               /\ ~e.check <=> IsCleanupRun(e)
               /\ e.check => (pc' = "exit" /\ error'.exc = "CalledProcessError")
               /\ ~e.check => (Domain(pc') = 3 /\ error' = NoError)]_vars

\* A run in apply mode that ended in success although brew bundle cleanup
\* exited non-zero, the document having a programs section.
C2_Witness ==
  /\ ~DRY_RUN
  /\ pc = "exit"
  /\ error = NoError
  /\ \E n \in 1..Len(log) : IsCleanupRun(log[n]) /\ Failed(log[n])
  /\ config.t = "dict"
  /\ Truthy(Get(config, str_programs, PyNone))

\* C3: once the manifest of a homebrew section is described, the first brew
\* command launched is brew bundle upgrade --file=- with the manifest on its
\* standard input, and it is launched in apply mode; brew bundle cleanup
\* --force is launched exactly when the mode is apply and the upgrade exited
\* zero, and then right after it; in dry-run mode or after a failed upgrade
\* it is never launched.
C3_UpgradeThenCleanup ==
  LET runs == SelectSeq(log, IsBrewRun)
      described == SelectSeq(log, IsManifestPrint)
  IN /\ Len(runs) <= 2
     /\ DRY_RUN => runs = <<>>
     /\ runs # <<>> =>
          /\ IsUpgradeRun(runs[1])
          /\ runs[1].piped
          /\ Len(described) = 1
          /\ described[1].text = str_applying \o runs[1].input \o str_rule
     /\ \A n \in 1..Len(log) :
          IsCleanupRun(log[n]) =>
            /\ ~DRY_RUN
            /\ n > 1
            /\ IsUpgradeRun(log[n - 1])
            /\ log[n - 1].started
            /\ log[n - 1].rc = 0
     /\ (pc = "exit" /\ ~DRY_RUN /\ described # <<>>) => runs # <<>>
     /\ (pc = "exit" /\ runs # <<>> /\ runs[1].started /\ runs[1].rc = 0) =>
          (Len(runs) = 2 /\ IsCleanupRun(runs[2]))
     /\ (pc = "exit" /\ runs # <<>> /\ ~(runs[1].started /\ runs[1].rc = 0)) => Len(runs) = 1

\* A finished run in apply mode whose upgrade read a manifest of some lines
\* and exited zero, followed by the cleanup.
C3_Witness ==
  /\ pc = "exit"
  /\ Len(log) = 3
  /\ IsUpgradeRun(log[2])
  /\ log[2].input # <<>>
  /\ log[2].rc = 0
  /\ IsCleanupRun(log[3])

\* Whether a field of a homebrew section is present with the wrong container
\* type.
HasWrongField(d) ==
  \/ \E k \in {str_taps, str_brews, str_casks} : HasKey(d, k) /\ Get(d, k, PyNone).t # "list"
  \/ HasKey(d, str_mas_apps) /\ Get(d, str_mas_apps, PyNone).t # "dict"

\* C10: the shape validation of a domain is over before the domain emits or
\* launches anything.  handle_system_defaults called on a mapping in which any
\* namespace maps to a non-mapping raises the type error with nothing of the
\* defaults described or launched, before or by that step; and
\* handle_packages_homebrew called on a mapping with a field of the wrong
\* type raises the type error with no manifest described and no brew command
\* launched.
C10_ValidationBeforeEmission ==
  [][/\ (/\ pc = "handle_system_defaults"
         /\ arg.t = "dict"
         /\ \E n \in 1..Len(arg.kv) : arg.kv[n].v.t # "dict") =>
          /\ \A n \in 1..Len(log) : ~IsDefaultsEvent(log[n])
          /\ log' = log
          /\ pc' = "exit"
          /\ error'.exc = "TypeError"
          /\ error'.expected = "dict"
     /\ (/\ pc = "handle_packages_homebrew"
         /\ arg.t = "dict"
         /\ HasWrongField(arg)) =>
          /\ \A n \in 1..Len(log) : ~IsBrewEvent(log[n])
          /\ log' = log
          /\ pc' = "exit"
          /\ error'.exc = "TypeError"]_vars

\* The run ended by the type error of a defaults mapping whose first
\* namespace is a mapping with entries and whose last is not a mapping,
\* having emitted nothing.
C10_Witness ==
  /\ pc = "exit"
  /\ error.exc = "TypeError"
  /\ log = <<>>
  /\ arg.t = "dict"
  /\ Len(arg.kv) = 2
  /\ arg.kv[1].k \in NamespaceNames
  /\ arg.kv[1].v.t = "dict"
  /\ arg.kv[1].v.kv # <<>>
  /\ arg.kv[2].v.t # "dict"

\* C7 as claimed: a root that is not a mapping fails before anything is
\* emitted, and a document in which system, packages or programs is present
\* with a value that is not a mapping does not end in success.
C7_NonMappingDomainFails ==
  pc = "exit" =>
    /\ config.t # "dict" => (error.exc = "TypeError" /\ log = <<>>)
    /\ (/\ config.t = "dict"
        /\ \E k \in {str_system, str_packages, str_programs} :
             HasKey(config, k) /\ Get(config, k, PyNone).t # "dict") => error # NoError

\* C8 as claimed: the programs handlers emit nothing, and a document whose
\* programs section has a git value that is not a mapping does not end in
\* success.
C8_ProgramsGitValidated ==
  [][/\ Domain(pc) = 3 => log' = log
     /\ (/\ pc' = "exit"
         /\ config.t = "dict"
         /\ Get(config, str_programs, PyNone).t = "dict"
         /\ HasKey(Get(config, str_programs, PyNone), str_git)
         /\ Get(Get(config, str_programs, PyNone), str_git, PyNone).t # "dict") =>
          error' # NoError]_vars

(***************************************************************************)
(* Reading the strings of a command back as the values they denote.        *)
(***************************************************************************)
IsDigit(c) == c \in {"0", "1", "2", "3", "4", "5", "6", "7", "8", "9"}
DigitVal(c) ==
  CASE c = "0" -> 0 [] c = "1" -> 1 [] c = "2" -> 2 [] c = "3" -> 3 [] c = "4" -> 4
    [] c = "5" -> 5 [] c = "6" -> 6 [] c = "7" -> 7 [] c = "8" -> 8 [] c = "9" -> 9
AllDigits(s) == \A n \in 1..Len(s) : IsDigit(s[n])

RECURSIVE NatOf(_)
NatOf(s) == IF s = <<>> THEN 0 ELSE 10 * NatOf(SubSeq(s, 1, Len(s) - 1)) + DigitVal(s[Len(s)])

\* s is the decimal numeral of the natural number n, without leading zeros.
DenotesNat(s, n) == s # <<>> /\ AllDigits(s) /\ (Len(s) > 1 => s[1] # "0") /\ NatOf(s) = n

\* s is the decimal numeral of the integer i.
DenotesInt(s, i) ==
  IF i < 0 THEN s # <<>> /\ s[1] = "-" /\ DenotesNat(Tail(s), -i) ELSE DenotesNat(s, i)

\* The first position of character c in s, or 0.
IndexOf(s, c) ==
  IF \E n \in 1..Len(s) : s[n] = c
  THEN CHOOSE n \in 1..Len(s) : s[n] = c /\ \A m \in 1..(n - 1) : s[m] # c
  ELSE 0

RECURSIVE StripLeadingZeros(_)
StripLeadingZeros(s) ==
  IF s # <<>> /\ s[1] = "0" THEN StripLeadingZeros(Tail(s)) ELSE s

RECURSIVE StripTrailingZeros(_)
StripTrailingZeros(s) ==
  IF s # <<>> /\ s[Len(s)] = "0" THEN StripTrailingZeros(SubSeq(s, 1, Len(s) - 1)) ELSE s

\* s is a decimal numeral, positional or with an exponent, of the float f:
\* its significant digits are those of f and its decimal point, moved by the
\* exponent, is where f has it.
DenotesFloat(s, f) ==
  LET neg == s # <<>> /\ s[1] = "-"
      body == IF neg THEN Tail(s) ELSE s
      e == IndexOf(body, "e")
      mant == IF e = 0 THEN body ELSE SubSeq(body, 1, e - 1)
      expo == IF e = 0 THEN <<>> ELSE SubSeq(body, e + 1, Len(body))
      dot == IndexOf(mant, ".")
      ip == IF dot = 0 THEN mant ELSE SubSeq(mant, 1, dot - 1)
      fp == IF dot = 0 THEN <<>> ELSE SubSeq(mant, dot + 1, Len(mant))
      ds == ip \o fp
      lead == Len(ds) - Len(StripLeadingZeros(ds))
      sig == StripTrailingZeros(StripLeadingZeros(ds))
      exp10 ==
        IF e = 0 THEN 0
        ELSE IF expo[1] = "-" THEN -NatOf(Tail(expo)) ELSE NatOf(Tail(expo))
  IN /\ ip # <<>>
     /\ AllDigits(ds)
     /\ e # 0 => (Len(expo) >= 2 /\ expo[1] \in {"+", "-"} /\ AllDigits(Tail(expo)))
     /\ neg = f.neg
     /\ IF sig = <<>>
        THEN f.digits = <<0>>
        ELSE /\ [n \in 1..Len(sig) |-> DigitVal(sig[n])] = f.digits
             /\ Len(ip) + exp10 - lead = f.decpt

\* The lines of a text: the pieces between its line feeds, none for the
\* empty text.
RECURSIVE Pieces(_)
Pieces(text) ==
  IF IndexOf(text, "\n") = 0 THEN <<text>>
  ELSE <<SubSeq(text, 1, IndexOf(text, "\n") - 1)>>
         \o Pieces(SubSeq(text, IndexOf(text, "\n") + 1, Len(text)))
LinesOf(text) == IF text = <<>> THEN <<>> ELSE Pieces(text)

(***************************************************************************)
(* The triples of a system.defaults mapping, counted in namespace order    *)
(* and key order within the namespace.                                     *)
(***************************************************************************)
SupportedTypes == {"bool", "str", "int", "float"}

\* A mapping of namespaces to mappings.
IsDefaultsMapping(d) == d.t = "dict" /\ \A n \in 1..Len(d.kv) : d.kv[n].v.t = "dict"

NumTriples(d) == SumEntries(d.kv)

\* The j-th triple of the namespaces from the n-th on.
RECURSIVE TripleFrom(_, _, _)
TripleFrom(d, n, j) ==
  IF j <= Len(d.kv[n].v.kv)
  THEN [namespace |-> d.kv[n].k, key |-> d.kv[n].v.kv[j].k, value |-> d.kv[n].v.kv[j].v]
  ELSE TripleFrom(d, n + 1, j - Len(d.kv[n].v.kv))
Triple(d, j) == TripleFrom(d, 1, j)

\* cmd is the defaults command of the triple tr.
RightCommand(cmd, tr) ==
  /\ Len(cmd) >= 5
  /\ SubSeq(cmd, 1, 4) = <<str_defaults, str_write, tr.namespace, tr.key>>
  /\ LET rest == SubSeq(cmd, 5, Len(cmd))
         v == tr.value
     IN CASE v.t = "bool" -> rest = <<str_dash_bool, IF v.b THEN str_true ELSE str_false>>
          [] v.t = "str" -> rest = <<v.s>>
          [] v.t = "int" -> Len(rest) = 1 /\ DenotesInt(rest[1], v.i)
          [] v.t = "float" -> Len(rest) = 1 /\ DenotesFloat(rest[1], v)

\* text describes a defaults write of the triple tr.
DescribesTriple(text, tr) ==
  StartsWith(text, str_executing \o <<" ">> \o str_defaults \o <<" ">> \o str_write
                     \o <<" ">> \o tr.namespace \o <<" ">> \o tr.key \o <<" ">>)

\* C5: for a system.defaults mapping whose values are all supported scalars,
\* the defaults actions are one per triple, in namespace order then key order:
\* the k-th description and the k-th launch are of the k-th triple, the
\* command is defaults write namespace key followed by -bool true or -bool
\* false for a boolean, the string itself for a string, a decimal numeral of
\* the value for an integer or a float; dry-run only describes, apply mode
\* launches each command right after describing it, and a run that ends
\* without error has covered every triple.
C5_OneActionPerTriple ==
  (IsDefaultsMapping(arg)
     /\ \A j \in 1..NumTriples(arg) : Triple(arg, j).value.t \in SupportedTypes) =>
    LET prints == SelectSeq(log, IsDefaultsPrint)
        runs == SelectSeq(log, IsDefaultsRun)
        np == Len(prints)
    IN /\ Len(log) = np + Len(runs)
       /\ np <= NumTriples(arg)
       /\ \A k \in 1..np : DescribesTriple(prints[k].text, Triple(arg, k))
       /\ np >= 1 =>
            /\ RightCommand(command, Triple(arg, np))
            /\ prints[np].text = str_executing \o <<" ">> \o Join(command, <<" ">>)
       /\ \A k \in 1..Len(runs) : RightCommand(runs[k].argv, Triple(arg, k))
       /\ DRY_RUN => runs = <<>>
       /\ ~DRY_RUN => \A n \in 1..Len(log) : log[n].ev = (IF n % 2 = 1 THEN "print" ELSE "run")
       /\ (pc = "exit" /\ error = NoError) =>
            /\ np = NumTriples(arg)
            /\ ~DRY_RUN => Len(runs) = np

\* A finished run in apply mode over two namespaces, the first of two keys,
\* with a boolean among the three values.
C5_Witness ==
  /\ pc = "exit"
  /\ error = NoError
  /\ ~DRY_RUN
  /\ IsDefaultsMapping(arg)
  /\ Len(arg.kv) = 2
  /\ Len(arg.kv[1].v.kv) = 2
  /\ Len(arg.kv[2].v.kv) = 1
  /\ \E j \in 1..3 : Triple(arg, j).value.t = "bool"
  /\ Len(log) = 6

\* The first triple of an unsupported value type, or 0.
FirstUnsupported(d) ==
  IF \E j \in 1..NumTriples(d) : Triple(d, j).value.t \notin SupportedTypes
  THEN CHOOSE j \in 1..NumTriples(d) :
         /\ Triple(d, j).value.t \notin SupportedTypes
         /\ \A i \in 1..(j - 1) : Triple(d, i).value.t \in SupportedTypes
  ELSE 0

\* C6: when a triple of a system.defaults mapping has an unsupported value
\* type, nothing is described or launched for it or for any triple after it;
\* a run that reaches it ends there with the type error, every triple before
\* it having been described and, in apply mode, launched with success, and
\* nothing else was launched to undo those writes; the only other end of the
\* run is the failure of a launch before it.
C6_UnsupportedValueStopsThere ==
  (IsDefaultsMapping(arg) /\ FirstUnsupported(arg) # 0) =>
    LET u == FirstUnsupported(arg)
        prints == SelectSeq(log, IsDefaultsPrint)
        runs == SelectSeq(log, IsDefaultsRun)
    IN /\ Len(log) = Len(prints) + Len(runs)
       /\ Len(prints) <= u - 1
       /\ Len(runs) <= Len(prints)
       /\ \A k \in 1..Len(prints) : DescribesTriple(prints[k].text, Triple(arg, k))
       /\ \A k \in 1..Len(runs) : RightCommand(runs[k].argv, Triple(arg, k))
       /\ pc = "exit" =>
            \/ /\ error.exc = "TypeError"
               /\ error.msg = "Unsupported value type"
               /\ raised_in = "handle_system_defaults"
               /\ Len(prints) = u - 1
               /\ Len(runs) = IF DRY_RUN THEN 0 ELSE u - 1
               /\ \A k \in 1..Len(runs) : runs[k].started /\ runs[k].rc = 0
            \/ /\ ~DRY_RUN
               /\ error.exc \in {"CalledProcessError", "OSError"}
               /\ runs # <<>>
               /\ Len(runs) = Len(prints)
               /\ ~(runs[Len(runs)].started /\ runs[Len(runs)].rc = 0)

\* The type error at the third triple in apply mode, the two triples before
\* it described and launched.
C6_Witness ==
  /\ pc = "exit"
  /\ error.msg = "Unsupported value type"
  /\ ~DRY_RUN
  /\ IsDefaultsMapping(arg)
  /\ FirstUnsupported(arg) = 3
  /\ Len(log) = 4
  /\ log[4].ev = "run"
  /\ log[4].rc = 0

(***************************************************************************)
(* The entries of a homebrew section, counted in the order of the          *)
(* manifest.                                                               *)
(***************************************************************************)
ListOf(d, k) == IF HasKey(d, k) THEN Get(d, k, PyNone).xs ELSE <<>>
PairsOf(d, k) == IF HasKey(d, k) THEN Get(d, k, PyNone).kv ELSE <<>>

\* The line of the j-th entry: the taps, then the brews, then the casks,
\* then the mas_apps.
EntryLine(d, j) ==
  LET nt == Len(ListOf(d, str_taps))
      nb == Len(ListOf(d, str_brews))
      nc == Len(ListOf(d, str_casks))
  IN IF j <= nt THEN str_tap_ \o JsonDumps(ListOf(d, str_taps)[j])
     ELSE IF j <= nt + nb THEN str_brew_ \o JsonDumps(ListOf(d, str_brews)[j - nt])
     ELSE IF j <= nt + nb + nc THEN str_cask_ \o JsonDumps(ListOf(d, str_casks)[j - nt - nb])
     ELSE LET it == PairsOf(d, str_mas_apps)[j - nt - nb - nc]
          IN str_mas_ \o JsonStr(it.k) \o str_id_ \o JsonDumps(it.v)

NumEntryLines(d) ==
  Len(ListOf(d, str_taps)) + Len(ListOf(d, str_brews)) + Len(ListOf(d, str_casks))
    + Len(PairsOf(d, str_mas_apps))

\* C9: for a packages.homebrew mapping, a field present with the wrong
\* container type ends the run with a type error and no manifest; otherwise
\* the manifest that is described, and kept for the upgrade, has exactly one
\* line per entry and no other line, the tap lines first, then the brew
\* lines, the cask lines and the mas lines, each group in input order; a
\* missing or empty field has no line.
C9_ManifestLines ==
  arg.t = "dict" =>
    IF HasWrongField(arg)
    THEN /\ log = <<>>
         /\ pc = "exit" => (error.exc = "TypeError" /\ error.msg = "Expected")
    ELSE pc # "handle_packages_homebrew" =>
           /\ log # <<>>
           /\ IsManifestPrint(log[1])
           /\ log[1].text = str_applying \o brewfile \o str_rule
           /\ Len(LinesOf(brewfile)) = NumEntryLines(arg)
           /\ \A j \in 1..NumEntryLines(arg) : LinesOf(brewfile)[j] = EntryLine(arg, j)

\* A described manifest of a tap line and a mas line, from a section that
\* lists mas_apps first and has an empty casks list.
C9_Witness ==
  /\ pc = "exit"
  /\ arg.t = "dict"
  /\ ~HasWrongField(arg)
  /\ log # <<>>
  /\ arg.kv # <<>>
  /\ arg.kv[1].k = str_mas_apps
  /\ HasKey(arg, str_casks)
  /\ Len(ListOf(arg, str_taps)) = 1
  /\ Len(ListOf(arg, str_casks)) = 0
  /\ Len(PairsOf(arg, str_mas_apps)) = 1
  /\ Len(LinesOf(brewfile)) = 2

====
